---- MODULE Spec2Model ----
(***************************************************************************)
(* A model of telesign/api.py: the PhoneId and Verify service clients, the *)
(* response validation of ServiceBase and the verification-code generator. *)
(* The request-signing module telesign.auth is not part of the sources; it *)
(* is modelled from the design document (sections 4.1 - 4.4).              *)
(*                                                                         *)
(* Text is modelled by TLA+ strings, Python dicts by sequences of          *)
(* <<key, value>> pairs in insertion order, and an optional value by a set *)
(* of at most one element (None is the empty set).  Digests are symbolic   *)
(* terms rendered as text.                                                 *)
(***************************************************************************)
EXTENDS Integers, Sequences, FiniteSets, TLC

VARIABLES clients, ctor, frames, wire, drawn, clock, gen

vars == <<clients, ctor, frames, wire, drawn, clock, gen>>

(***************************************************************************)
(* Bounds of the model.                                                    *)
(***************************************************************************)
\* the number of nonces the header generator may draw in one behaviour
MaxRequests == 3
\* the number of seconds the wall clock may advance
MaxClock == 2
\* the largest length passed to random_with_n_digits
MaxDigits == 3

(***************************************************************************)
(* Python values.                                                          *)
(***************************************************************************)
None == {}
Some(x) == {x}
The(o) == CHOOSE x \in o : TRUE
\* the truth value of an optional string: None and "" are false
Truthy(o) == o # None /\ The(o) # ""

RECURSIVE JoinStr(_, _)
\* sep.join(parts)
JoinStr(parts, sep) ==
    IF parts = <<>> THEN ""
    ELSE IF Len(parts) = 1 THEN parts[1]
    ELSE parts[1] \o sep \o JoinStr(Tail(parts), sep)

\* a dict is a sequence of <<key, value>> pairs with distinct keys
DictKeys(d) == {d[i][1] : i \in 1..Len(d)}
DictGet(d, k) == d[CHOOSE i \in 1..Len(d) : d[i][1] = k][2]
\* d[k] = v
DictSet(d, k, v) ==
    IF k \in DictKeys(d)
    THEN [i \in 1..Len(d) |-> IF d[i][1] = k THEN <<k, v>> ELSE d[i]]
    ELSE Append(d, <<k, v>>)

RECURSIVE DictUpdate(_, _)
\* d.update(e)
DictUpdate(d, e) ==
    IF e = <<>> THEN d
    ELSE DictUpdate(DictSet(d, e[1][1], e[1][2]), Tail(e))

(***************************************************************************)
(* telesign.auth, modelled from the design document.                       *)
(***************************************************************************)
\* 4.1: a fresh token on every call; r is the number of the draw from the
\* process-wide random source
generate_nonce(r) == "n" \o ToString(r)
\* 4.1: the current instant with second precision
generate_timestamp(now) == "T" \o ToString(now)

\* percent-encoding of one key or value: the reserved characters that occur
\* in the modelled inputs
quote_plus(s) ==
    CASE s = "a b" -> "a+b"
      [] s = "$$CODE$$" -> "%24%24CODE%24%24"
      [] OTHER -> s

\* the form encoding of a dict: k1=v1&k2=v2 in the dict's iteration order
urlencode(d) ==
    JoinStr([i \in 1..Len(d) |-> quote_plus(d[i][1]) \o "=" \o quote_plus(d[i][2])], "&")

FormContentType == "application/x-www-form-urlencoded"
\* 4.2: the base64-encoded MD5 digest of the body bytes, as a symbolic term
ContentMD5(body) == "b64(md5(" \o body \o "))"
\* 4.2: POST/PUT-style methods carry a body
HasBody(method, fields) == method \in {"POST", "PUT"} /\ fields # None

\* 4.2: six newline-joined segments in a fixed order
build_canonical_string(method, resource_path, content_type, content_md5, timestamp, nonce) ==
    JoinStr(<<method, content_md5, content_type, timestamp,
              "x-ts-nonce:" \o nonce, resource_path>>, "\n")

\* 4.3 / 6: the secret key is standard base64 text
ValidBase64(k) == k \in {"dGVzdGtleQ==", "b3RoZXJrZXk="}
b64decode(k) ==
    CASE k = "dGVzdGtleQ==" -> "testkey"
      [] k = "b3RoZXJrZXk=" -> "otherkey"

\* 4.3: base64 of the HMAC of the canonical string keyed by the decoded secret
sign(secret_key_b64, canonical_string) ==
    "b64(hmac-sha256(" \o b64decode(secret_key_b64) \o "," \o canonical_string \o "))"

\* 4.4: the header mapping; the content headers only with a body
build_headers(customer_id, signature, nonce, timestamp, auth_method, content_type, content_md5) ==
    LET base == [h \in {"Authorization", "x-ts-date", "x-ts-nonce", "x-ts-auth-method"} |->
                   CASE h = "Authorization" -> "TSA " \o customer_id \o ":" \o signature
                     [] h = "x-ts-date" -> timestamp
                     [] h = "x-ts-nonce" -> nonce
                     [] h = "x-ts-auth-method" -> auth_method]
    IN IF content_type = None THEN base
       ELSE [h \in {"Content-Type", "Content-MD5"} |->
               IF h = "Content-Type" THEN The(content_type) ELSE The(content_md5)] @@ base

\* 4.1 - 4.4 in sequence: what generate_auth_headers(customer_id, secret_key,
\* resource, method, fields=...) yields with the nonce and timestamp it drew.
\* a is the argument record of the call.
generate_auth_headers(a, nonce, timestamp) ==
    LET body == IF HasBody(a.method, a.fields) THEN Some(urlencode(The(a.fields))) ELSE None
        content_type == IF body = None THEN None ELSE Some(FormContentType)
        content_md5 == IF body = None THEN None ELSE Some(ContentMD5(The(body)))
        canonical == build_canonical_string(a.method, a.resource,
                        IF body = None THEN "" ELSE The(content_type),
                        IF body = None THEN "" ELSE The(content_md5),
                        timestamp, nonce)
    IN IF ~ValidBase64(a.secret_key)
       THEN [raised |-> Some("ConfigurationError"), args |-> a, nonce |-> nonce,
             timestamp |-> timestamp, body |-> body, canonical |-> "",
             headers |-> None]
       ELSE [raised |-> None, args |-> a, nonce |-> nonce,
             timestamp |-> timestamp, body |-> body, canonical |-> canonical,
             headers |-> Some(build_headers(a.customer_id, sign(a.secret_key, canonical),
                                            nonce, timestamp, "HMAC-SHA256",
                                            content_type, content_md5))]

(***************************************************************************)
(* telesign/api.py: Response and ServiceBase.                              *)
(***************************************************************************)
codes_ok == 200
codes_unauthorized == 401

\* Response.__init__
Response(data, http_response, verify_code) ==
    [kind |-> "Response", data |-> Some(data), headers |-> Some(http_response.headers),
     status |-> Some(http_response.status_code), raw_data |-> Some(http_response.text),
     http_response |-> None, verify_code |-> verify_code]

\* an exception leaving the call; TelesignError and AuthorizationError are
\* built from the parsed body and the raw response
Raise(kind, data, http_response) ==
    [kind |-> kind, data |-> data, headers |-> None, status |-> None, raw_data |-> None,
     http_response |-> http_response, verify_code |-> None]

\* a variant of ServiceBase_init: customer id and secret key change places
ServiceBase_init_swapped(api_host, customer_id, secret_key, ssl, proxy_host) ==
    [_customer_id |-> secret_key,
     _secret_key |-> customer_id,
     _api_host |-> api_host,
     _proxy |-> None,
     _url |-> (IF ssl THEN "https" ELSE "http") \o "://" \o api_host]
\* ServiceBase.__init__
ServiceBase_init(api_host, customer_id, secret_key, ssl, proxy_host) ==
    LET http_root == IF ssl THEN "https" ELSE "http"
    IN [_customer_id |-> customer_id,
        _secret_key |-> secret_key,
        _api_host |-> api_host,
        _proxy |-> IF Truthy(proxy_host)
                   THEN Some(<< <<http_root, http_root \o "://" \o The(proxy_host)>> >>)
                   ELSE None,
        _url |-> http_root \o "://" \o api_host]

\* json.loads on the response texts of the model: the parsed object, or
\* None where the text is not JSON and json.loads raises ValueError
json_loads(text) ==
    CASE text = "{\"reference_id\": \"abc123\"}" -> Some(<< <<"reference_id", "abc123">> >>)
      [] text = "{}" -> Some(<<>>)
      [] OTHER -> None

\* ServiceBase._validate_response: the parsed body, or the exception raised
_validate_response(response) ==
    LET resp_obj == json_loads(response.text)
    IN IF resp_obj = None
       THEN Raise("ValueError", None, None)
       ELSE IF response.status_code # codes_ok
            THEN IF response.status_code = codes_unauthorized
                 THEN Raise("AuthorizationError", resp_obj, Some(response))
                 ELSE Raise("TelesignError", resp_obj, Some(response))
            ELSE [kind |-> "return", data |-> resp_obj, headers |-> None, status |-> None,
                  raw_data |-> None, http_response |-> None, verify_code |-> None]

(***************************************************************************)
(* telesign/api.py: the endpoint methods.  a is the record of a method's   *)
(* parameters, fr the frame of the invocation (its local variables).       *)
(***************************************************************************)
\* a variant of standard_prepare: extra is merged first and the named
\* parameter written over it
standard_prepare_extra_first(a) ==
    LET fields0 == IF a.extra # None THEN The(a.extra) ELSE <<>>
    IN [resource |-> "/v1/phoneid/standard/" \o a.phone_number,
        method |-> "GET",
        fields |-> IF Truthy(a.use_case_code)
                   THEN DictSet(fields0, "ucid", The(a.use_case_code)) ELSE fields0]
\* PhoneId.standard: resource, method and fields
standard_prepare(a) ==
    LET fields0 == IF Truthy(a.use_case_code) THEN DictSet(<<>>, "ucid", The(a.use_case_code)) ELSE <<>>
    IN [resource |-> "/v1/phoneid/standard/" \o a.phone_number,
        method |-> "GET",
        fields |-> IF a.extra # None THEN DictUpdate(fields0, The(a.extra)) ELSE fields0]
\* PhoneId.standard: the arguments of generate_auth_headers
standard_auth(self, fr) ==
    [customer_id |-> self._customer_id, secret_key |-> self._secret_key,
     resource |-> fr.resource, method |-> fr.method, fields |-> None]
\* PhoneId.standard: the requests.get call
standard_request(self, fr, headers) ==
    [verb |-> "GET", url |-> self._url \o fr.resource, params |-> Some(fr.fields),
     data |-> None, headers |-> headers, proxies |-> self._proxy]
\* PhoneId.standard: the value returned
standard_return(fr, data, req) == Response(data, req, None)

\* PhoneId.score: resource, method and fields
score_prepare(a) ==
    LET fields0 == << <<"ucid", The(a.use_case_code)>> >>
    IN [resource |-> "/v1/phoneid/score/" \o a.phone_number,
        method |-> "GET",
        fields |-> IF a.extra # None THEN DictUpdate(fields0, The(a.extra)) ELSE fields0]
\* PhoneId.score: the arguments of generate_auth_headers
score_auth(self, fr) ==
    [customer_id |-> self._customer_id, secret_key |-> self._secret_key,
     resource |-> fr.resource, method |-> fr.method, fields |-> None]
\* a variant of score_request: a header is added to the signed ones
score_request_extra_header(self, fr, headers) ==
    [verb |-> "GET", url |-> self._url \o fr.resource, params |-> Some(fr.fields),
     data |-> None,
     headers |-> Some(("Content-Type" :> "application/json") @@ The(headers)),
     proxies |-> self._proxy]
\* PhoneId.score: the requests.get call
score_request(self, fr, headers) ==
    [verb |-> "GET", url |-> self._url \o fr.resource, params |-> Some(fr.fields),
     data |-> None, headers |-> headers, proxies |-> self._proxy]
\* PhoneId.score: the value returned
score_return(fr, data, req) == Response(data, req, None)

\* PhoneId.contact: resource, method and fields
contact_prepare(a) ==
    LET fields0 == << <<"ucid", The(a.use_case_code)>> >>
    IN [resource |-> "/v1/phoneid/contact/" \o a.phone_number,
        method |-> "GET",
        fields |-> IF a.extra # None THEN DictUpdate(fields0, The(a.extra)) ELSE fields0]
\* PhoneId.contact: the arguments of generate_auth_headers
contact_auth(self, fr) ==
    [customer_id |-> self._customer_id, secret_key |-> self._secret_key,
     resource |-> fr.resource, method |-> fr.method, fields |-> None]
\* PhoneId.contact: the requests.get call
contact_request(self, fr, headers) ==
    [verb |-> "GET", url |-> self._url \o fr.resource, params |-> Some(fr.fields),
     data |-> None, headers |-> headers, proxies |-> self._proxy]
\* PhoneId.contact: the value returned
contact_return(fr, data, req) == Response(data, req, None)

\* PhoneId.live: resource, method and fields
live_prepare(a) ==
    LET fields0 == << <<"ucid", The(a.use_case_code)>> >>
    IN [resource |-> "/v1/phoneid/live/" \o a.phone_number,
        method |-> "GET",
        fields |-> IF a.extra # None THEN DictUpdate(fields0, The(a.extra)) ELSE fields0]
\* PhoneId.live: the arguments of generate_auth_headers
live_auth(self, fr) ==
    [customer_id |-> self._customer_id, secret_key |-> self._secret_key,
     resource |-> fr.resource, method |-> fr.method, fields |-> None]
\* PhoneId.live: the requests.get call
live_request(self, fr, headers) ==
    [verb |-> "GET", url |-> self._url \o fr.resource, params |-> Some(fr.fields),
     data |-> None, headers |-> headers, proxies |-> self._proxy]
\* PhoneId.live: the value returned
live_return(fr, data, req) == Response(data, req, None)

\* Verify.sms: resource, method and fields
sms_prepare(a) ==
    LET fields0 == << <<"phone_number", a.phone_number>>, <<"language", a.language>>,
                      <<"template", a.template>> >>
        fields1 == IF Truthy(a.verify_code)
                   THEN DictSet(fields0, "verify_code", The(a.verify_code)) ELSE fields0
        fields2 == IF Truthy(a.use_case_code)
                   THEN DictSet(fields1, "ucid", The(a.use_case_code)) ELSE fields1
        fields3 == IF a.originating_ip # None
                   THEN DictSet(fields2, "originating_ip", The(a.originating_ip)) ELSE fields2
    IN [resource |-> "/v1/verify/sms",
        method |-> "POST",
        fields |-> IF a.extra # None THEN DictUpdate(fields3, The(a.extra)) ELSE fields3]
\* a variant of sms_auth: fields=fields is left out of the call
sms_auth_no_fields(self, fr) ==
    [customer_id |-> self._customer_id, secret_key |-> self._secret_key,
     resource |-> fr.resource, method |-> fr.method, fields |-> None]
\* Verify.sms: the arguments of generate_auth_headers
sms_auth(self, fr) ==
    [customer_id |-> self._customer_id, secret_key |-> self._secret_key,
     resource |-> fr.resource, method |-> fr.method, fields |-> Some(fr.fields)]
\* a variant of sms_request: the fields are kept on the client object, where
\* a concurrent Verify.sms call on the same client overwrites them
sms_request_shared(self, fr, headers) ==
    LET others == {u \in DOMAIN frames :
                     /\ frames[u].op = "sms" /\ frames[u].pc # "idle"
                     /\ frames[u].self = fr.self /\ frames[u].fields # fr.fields}
    IN [verb |-> "POST", url |-> self._url \o fr.resource, params |-> None,
        data |-> IF others = {} THEN Some(fr.fields)
                 ELSE Some(frames[CHOOSE u \in others : TRUE].fields),
        headers |-> headers, proxies |-> self._proxy]
\* a variant of sms_request: the POST carries the fields as they were before
\* extra was merged
sms_request_unmerged(self, fr, headers) ==
    [verb |-> "POST", url |-> self._url \o fr.resource, params |-> None,
     data |-> Some(sms_prepare([fr.args EXCEPT !.extra = None]).fields),
     headers |-> headers, proxies |-> self._proxy]
\* Verify.sms: the requests.post call
sms_request(self, fr, headers) ==
    [verb |-> "POST", url |-> self._url \o fr.resource, params |-> None,
     data |-> Some(fr.fields), headers |-> headers, proxies |-> self._proxy]
\* Verify.sms: the value returned
sms_return(fr, data, req) == Response(data, req, fr.args.verify_code)

\* Verify.call: resource, method and fields
call_prepare(a) ==
    LET fields0 == << <<"phone_number", a.phone_number>>, <<"language", a.language>>,
                      <<"verify_method", a.verify_method>>,
                      <<"extension_type", a.extension_type>>, <<"redial", a.redial>> >>
        fields1 == IF Truthy(a.verify_code)
                   THEN DictSet(fields0, "verify_code", The(a.verify_code)) ELSE fields0
        fields2 == IF Truthy(a.pressx)
                   THEN DictSet(fields1, "pressx", The(a.pressx)) ELSE fields1
        fields3 == IF Truthy(a.use_case_code)
                   THEN DictSet(fields2, "ucid", The(a.use_case_code)) ELSE fields2
        fields4 == IF a.originating_ip # None
                   THEN DictSet(fields3, "originating_ip", The(a.originating_ip)) ELSE fields3
    IN [resource |-> "/v1/verify/call",
        method |-> "POST",
        fields |-> IF a.extra # None THEN DictUpdate(fields4, The(a.extra)) ELSE fields4]
\* Verify.call: the arguments of generate_auth_headers
call_auth(self, fr) ==
    [customer_id |-> self._customer_id, secret_key |-> self._secret_key,
     resource |-> fr.resource, method |-> fr.method, fields |-> Some(fr.fields)]
\* Verify.call: the requests.post call
call_request(self, fr, headers) ==
    [verb |-> "POST", url |-> self._url \o fr.resource, params |-> None,
     data |-> Some(fr.fields), headers |-> headers, proxies |-> self._proxy]
\* Verify.call: the value returned
call_return(fr, data, req) == Response(data, req, fr.args.verify_code)

\* Verify.status: resource, method and fields
status_prepare(a) ==
    LET fields0 == IF a.verify_code # None
                   THEN DictSet(<<>>, "verify_code", The(a.verify_code)) ELSE <<>>
    IN [resource |-> "/v1/verify/" \o a.ref_id,
        method |-> "GET",
        fields |-> IF a.extra # None THEN DictUpdate(fields0, The(a.extra)) ELSE fields0]
\* a variant of status_auth: resource and method change places
status_auth_swapped(self, fr) ==
    [customer_id |-> self._customer_id, secret_key |-> self._secret_key,
     resource |-> fr.method, method |-> fr.resource, fields |-> None]
\* Verify.status: the arguments of generate_auth_headers
status_auth(self, fr) ==
    [customer_id |-> self._customer_id, secret_key |-> self._secret_key,
     resource |-> fr.resource, method |-> fr.method, fields |-> None]
\* a variant of status_request: the nonce and date of the first request sent
\* are kept and sent again
status_request_cached(self, fr, headers) ==
    [verb |-> "GET", url |-> self._url \o fr.resource, params |-> Some(fr.fields),
     data |-> None,
     headers |-> IF wire = <<>> THEN headers
                 ELSE Some([The(headers) EXCEPT !["x-ts-nonce"] = wire[1].nonce,
                                                !["x-ts-date"] = wire[1].date]),
     proxies |-> self._proxy]
\* Verify.status: the requests.get call
status_request(self, fr, headers) ==
    [verb |-> "GET", url |-> self._url \o fr.resource, params |-> Some(fr.fields),
     data |-> None, headers |-> headers, proxies |-> self._proxy]
\* Verify.status: the value returned
status_return(fr, data, req) == Response(data, req, None)

(***************************************************************************)
(* The inputs of the model.                                                *)
(***************************************************************************)
ClientNames == {"phoneid", "verify"}
Threads == {"t1"}
\* the credentials a client is constructed with: one whose secret key is
\* base64 and one whose secret key is not
Credentials == {[customer_id |-> "CUST1", secret_key |-> "dGVzdGtleQ=="],
                [customer_id |-> "CUST2", secret_key |-> "not base64"]}
PhoneNumbers == {"1555"}
RefIds == {"abc123", "abc123?verify_code=1234"}
VerifyCodes == {None, Some("1234"), Some("")}
UseCaseCodes == {None, Some("ATCK")}
Extras == {None, Some(<< <<"ucid", "OTHR">>, <<"note", "a b">> >>)}
StatusCodes == {codes_ok, codes_unauthorized, 500}
ResponseTexts == {"{\"reference_id\": \"abc123\"}", "<html>Bad Gateway</html>"}
EndpointsOf(c) ==
    IF c = "phoneid" THEN {"standard", "score", "contact", "live"}
    ELSE {"sms", "call", "status"}

\* the parameters of an endpoint method, the ones not varied at their defaults
Args(target, verify_code, use_case_code, extra) ==
    [phone_number |-> target, ref_id |-> target, verify_code |-> verify_code,
     use_case_code |-> use_case_code, extra |-> extra,
     language |-> "en", template |-> "", verify_method |-> "", extension_type |-> "",
     redial |-> "", originating_ip |-> None, pressx |-> None]

\* the local variables of an endpoint method once resource, method and fields
\* are assigned; headers, req and the returned value are not yet bound.  A
\* thread that is in no endpoint method has pc "idle".
Frame(pc, c, op, a, prep) ==
    [pc |-> pc, self |-> c, op |-> op, args |-> a,
     resource |-> prep.resource, method |-> prep.method, fields |-> prep.fields,
     auth |-> None, headers |-> None, request |-> None, response |-> None,
     result |-> None]

\* the dispatch of the per-endpoint steps
PrepareOf(op, a) ==
    CASE op = "standard" -> standard_prepare(a)
      [] op = "score" -> score_prepare(a)
      [] op = "contact" -> contact_prepare(a)
      [] op = "live" -> live_prepare(a)
      [] op = "sms" -> sms_prepare(a)
      [] op = "call" -> call_prepare(a)
      [] op = "status" -> status_prepare(a)
AuthArgsOf(self, fr) ==
    CASE fr.op = "standard" -> standard_auth(self, fr)
      [] fr.op = "score" -> score_auth(self, fr)
      [] fr.op = "contact" -> contact_auth(self, fr)
      [] fr.op = "live" -> live_auth(self, fr)
      [] fr.op = "sms" -> sms_auth(self, fr)
      [] fr.op = "call" -> call_auth(self, fr)
      [] fr.op = "status" -> status_auth(self, fr)
RequestOf(self, fr, headers) ==
    CASE fr.op = "standard" -> standard_request(self, fr, headers)
      [] fr.op = "score" -> score_request(self, fr, headers)
      [] fr.op = "contact" -> contact_request(self, fr, headers)
      [] fr.op = "live" -> live_request(self, fr, headers)
      [] fr.op = "sms" -> sms_request(self, fr, headers)
      [] fr.op = "call" -> call_request(self, fr, headers)
      [] fr.op = "status" -> status_request(self, fr, headers)
ReturnOf(fr, data, req) ==
    CASE fr.op = "standard" -> standard_return(fr, data, req)
      [] fr.op = "score" -> score_return(fr, data, req)
      [] fr.op = "contact" -> contact_return(fr, data, req)
      [] fr.op = "live" -> live_return(fr, data, req)
      [] fr.op = "sms" -> sms_return(fr, data, req)
      [] fr.op = "call" -> call_return(fr, data, req)
      [] fr.op = "status" -> status_return(fr, data, req)

(***************************************************************************)
(* The state machine.                                                      *)
(*   clients  the PhoneId and the Verify object                            *)
(*   ctor     the arguments each was constructed with                      *)
(*   frames   the local variables of each thread's endpoint invocation     *)
(*   wire     the nonce and date of every HTTP request issued, in order    *)
(*   drawn    the number of nonces drawn from the random source            *)
(*   clock    the wall clock, in seconds                                   *)
(*   gen      the invocation of random_with_n_digits                       *)
(***************************************************************************)
\* the local state of random_with_n_digits(n) before its first iteration
Gen(pc, n) == [pc |-> pc, n |-> n, i |-> 0, picks |-> <<>>, code |-> None, raised |-> None]

Init ==
    /\ ctor \in [ClientNames -> Credentials]
    /\ clients = [c \in ClientNames |->
                    ServiceBase_init("rest.telesign.com", ctor[c].customer_id,
                                     ctor[c].secret_key, TRUE, None)]
    /\ frames = [t \in Threads |->
                   Frame("idle", "", "", Args("", None, None, None),
                         [resource |-> "", method |-> "", fields |-> <<>>])]
    /\ wire = <<>>
    /\ drawn = 0
    /\ clock = 1
    /\ gen = Gen("idle", 0)

\* the first statements of an endpoint method, entered by a thread that is in
\* no other: resource, method, fields
Enter(t, c, op, a, prep) ==
    /\ frames' = [frames EXCEPT ![t] = Frame("auth", c, op, a, prep)]
    /\ UNCHANGED <<clients, ctor, wire, drawn, clock, gen>>

PhoneId_standard(t) ==
    /\ frames[t].pc \in {"idle", "done"}
    /\ \E pn \in PhoneNumbers, ucc \in UseCaseCodes, extra \in Extras :
         LET a == Args(pn, None, ucc, extra)
         IN Enter(t, "phoneid", "standard", a, standard_prepare(a))

PhoneId_score(t) ==
    /\ frames[t].pc \in {"idle", "done"}
    /\ \E pn \in PhoneNumbers, ucc \in UseCaseCodes \ {None}, extra \in Extras :
         LET a == Args(pn, None, ucc, extra)
         IN Enter(t, "phoneid", "score", a, score_prepare(a))

PhoneId_contact(t) ==
    /\ frames[t].pc \in {"idle", "done"}
    /\ \E pn \in PhoneNumbers, ucc \in UseCaseCodes \ {None}, extra \in Extras :
         LET a == Args(pn, None, ucc, extra)
         IN Enter(t, "phoneid", "contact", a, contact_prepare(a))

PhoneId_live(t) ==
    /\ frames[t].pc \in {"idle", "done"}
    /\ \E pn \in PhoneNumbers, ucc \in UseCaseCodes \ {None}, extra \in Extras :
         LET a == Args(pn, None, ucc, extra)
         IN Enter(t, "phoneid", "live", a, live_prepare(a))

Verify_sms(t) ==
    /\ frames[t].pc \in {"idle", "done"}
    /\ \E pn \in PhoneNumbers, vc \in VerifyCodes, ucc \in UseCaseCodes, extra \in Extras :
         LET a == Args(pn, vc, ucc, extra)
         IN Enter(t, "verify", "sms", a, sms_prepare(a))

Verify_call(t) ==
    /\ frames[t].pc \in {"idle", "done"}
    /\ \E pn \in PhoneNumbers, vc \in VerifyCodes, ucc \in UseCaseCodes, extra \in Extras :
         LET a == Args(pn, vc, ucc, extra)
         IN Enter(t, "verify", "call", a, call_prepare(a))

Verify_status(t) ==
    /\ frames[t].pc \in {"idle", "done"}
    /\ \E ref \in RefIds, vc \in VerifyCodes, extra \in Extras :
         LET a == Args(ref, vc, None, extra)
         IN Enter(t, "verify", "status", a, status_prepare(a))

\* a variant of GenerateAuthHeaders: a failure of the signer is swallowed and
\* the request goes on with an empty signature
GenerateAuthHeaders_swallow(t) ==
    /\ frames[t].pc = "auth"
    /\ drawn < MaxRequests
    /\ LET fr == frames[t]
           a == AuthArgsOf(clients[fr.self], fr)
           auth == generate_auth_headers(a, generate_nonce(drawn + 1),
                                         generate_timestamp(clock))
           unsigned == Some(build_headers(a.customer_id, "", auth.nonce, auth.timestamp,
                                          "HMAC-SHA256", None, None))
       IN frames' = [frames EXCEPT ![t] =
                       [fr EXCEPT !.pc = "http",
                                  !.auth = Some([auth EXCEPT !.headers = unsigned]),
                                  !.headers = IF auth.raised # None THEN unsigned
                                              ELSE auth.headers]]
    /\ drawn' = drawn + 1
    /\ UNCHANGED <<clients, ctor, wire, clock, gen>>

\* headers = generate_auth_headers(...): draws a nonce, reads the clock
GenerateAuthHeaders(t) ==
    /\ frames[t].pc = "auth"
    /\ drawn < MaxRequests
    /\ LET fr == frames[t]
           auth == generate_auth_headers(AuthArgsOf(clients[fr.self], fr),
                                         generate_nonce(drawn + 1), generate_timestamp(clock))
       IN frames' = [frames EXCEPT ![t] =
                       IF auth.raised # None
                       THEN [fr EXCEPT !.pc = "done", !.auth = Some(auth),
                                       !.result = Some(Raise(The(auth.raised), None, None))]
                       ELSE [fr EXCEPT !.pc = "http", !.auth = Some(auth),
                                       !.headers = auth.headers]]
    /\ drawn' = drawn + 1
    /\ UNCHANGED <<clients, ctor, wire, clock, gen>>

\* a variant of HttpRequest: a request answered with a server error is sent
\* once more
HttpRequest_retry(t) ==
    /\ frames[t].pc = "http"
    /\ \E code \in StatusCodes, text \in ResponseTexts :
        LET fr == frames[t]
            req == RequestOf(clients[fr.self], fr, fr.headers)
            response == [status_code |-> code, text |-> text,
                         headers |-> << <<"Content-Type", "application/json">> >>]
            sent == [nonce |-> The(req.headers)["x-ts-nonce"],
                     date |-> The(req.headers)["x-ts-date"]]
        IN /\ frames' = [frames EXCEPT ![t] =
                           [fr EXCEPT !.pc = "validate", !.request = Some(req),
                                      !.response = Some(response)]]
           /\ wire' = IF code \notin {codes_ok, codes_unauthorized}
                      THEN wire \o <<sent, sent>> ELSE Append(wire, sent)
    /\ UNCHANGED <<clients, ctor, drawn, clock, gen>>

\* req = requests.get(...) / requests.post(...): the request goes out and the
\* service answers
HttpRequest(t) ==
    /\ frames[t].pc = "http"
    /\ \E code \in StatusCodes, text \in ResponseTexts :
        LET fr == frames[t]
            req == RequestOf(clients[fr.self], fr, fr.headers)
            response == [status_code |-> code, text |-> text,
                         headers |-> << <<"Content-Type", "application/json">> >>]
        IN /\ frames' = [frames EXCEPT ![t] =
                           [fr EXCEPT !.pc = "validate", !.request = Some(req),
                                      !.response = Some(response)]]
           /\ wire' = Append(wire, [nonce |-> The(req.headers)["x-ts-nonce"],
                                    date |-> The(req.headers)["x-ts-date"]])
    /\ UNCHANGED <<clients, ctor, drawn, clock, gen>>

\* return Response(self._validate_response(req), req, ...)
ValidateResponse(t) ==
    /\ frames[t].pc = "validate"
    /\ LET fr == frames[t]
           v == _validate_response(The(fr.response))
       IN frames' = [frames EXCEPT ![t] =
                       [fr EXCEPT !.pc = "done",
                                  !.result = IF v.kind = "return"
                                             THEN Some(ReturnOf(fr, The(v.data), The(fr.response)))
                                             ELSE Some(v)]]
    /\ UNCHANGED <<clients, ctor, wire, drawn, clock, gen>>

\* a second passes
Tick ==
    /\ clock < MaxClock
    /\ clock' = clock + 1
    /\ UNCHANGED <<clients, ctor, frames, wire, drawn, gen>>

Next ==
    \/ \E t \in Threads : PhoneId_standard(t)
    \/ \E t \in Threads : PhoneId_score(t)
    \/ \E t \in Threads : PhoneId_contact(t)
    \/ \E t \in Threads : PhoneId_live(t)
    \/ \E t \in Threads : Verify_sms(t)
    \/ \E t \in Threads : Verify_call(t)
    \/ \E t \in Threads : Verify_status(t)
    \/ \E t \in Threads : GenerateAuthHeaders(t)
    \/ \E t \in Threads : HttpRequest(t)
    \/ \E t \in Threads : ValidateResponse(t)
    \/ Tick

Spec == Init /\ [][Next]_vars

(***************************************************************************)
(* random_with_n_digits.  The generator shares no variable with the        *)
(* endpoint methods; SpecCode runs it alone, over every length from -1 to  *)
(* MaxDigits.                                                              *)
(***************************************************************************)
\* the population rng.choice draws from: '0123456789'
choice_population == {"0", "1", "2", "3", "4", "5", "6", "7", "8", "9"}
\* a variant of range_len: one iteration too few
range_len_short(n) == IF n > 1 THEN n - 1 ELSE 0
\* the number of iterations of range(n)
range_len(n) == IF n > 0 THEN n ELSE 0

\* random_with_n_digits(n) is called: no statement precedes the generator
\* expression, so no length is rejected
RandomWithNDigits(n) ==
    /\ gen.pc \in {"idle", "done"}
    /\ gen' = Gen("loop", n)
    /\ UNCHANGED <<clients, ctor, frames, wire, drawn, clock>>

\* one iteration of the generator expression: rng.choice('0123456789')
RngChoice ==
    /\ gen.pc = "loop"
    /\ gen.i < range_len(gen.n)
    /\ \E d \in choice_population :
         gen' = [gen EXCEPT !.i = gen.i + 1, !.picks = Append(gen.picks, d)]
    /\ UNCHANGED <<clients, ctor, frames, wire, drawn, clock>>

\* "".join(...) once the range is exhausted
JoinPicks ==
    /\ gen.pc = "loop"
    /\ gen.i >= range_len(gen.n)
    /\ gen' = [gen EXCEPT !.pc = "done", !.code = Some(JoinStr(gen.picks, ""))]
    /\ UNCHANGED <<clients, ctor, frames, wire, drawn, clock>>

NextCode ==
    \/ \E n \in -1..MaxDigits : RandomWithNDigits(n)
    \/ RngChoice
    \/ JoinPicks

SpecCode == Init /\ [][NextCode]_vars

(***************************************************************************)
(* Concurrent use: two threads call Verify.sms and PhoneId.standard on two  *)
(* clients while random_with_n_digits runs, every step of one interleaved  *)
(* with the steps of the others.                                           *)
(***************************************************************************)
ConcThreads == {"t1", "t2"}
\* the two clients, each constructed once with its own credential
ConcCtor ==
    [c \in ClientNames |->
       IF c = "phoneid" THEN [customer_id |-> "CUST1", secret_key |-> "dGVzdGtleQ=="]
       ELSE [customer_id |-> "CUST2", secret_key |-> "b3RoZXJrZXk="]]
\* the calls the threads make
ConcArgs ==
    {Args("1555", Some("1234"), None, None),
     Args("1555", None, None, Some(<< <<"ucid", "OTHR">>, <<"note", "a b">> >>))}
\* the answers of the service
ConcResponses ==
    {[status_code |-> code, text |-> "{\"reference_id\": \"abc123\"}",
      headers |-> << <<"Content-Type", "application/json">> >>] : code \in {codes_ok}}
\* the lengths asked of random_with_n_digits and the digits the random source
\* gives
ConcLengths == {1}
ConcDigits == {"4", "7"}

InitConc ==
    /\ ctor = ConcCtor
    /\ clients = [c \in ClientNames |->
                    ServiceBase_init("rest.telesign.com", ctor[c].customer_id,
                                     ctor[c].secret_key, TRUE, None)]
    /\ frames = [t \in ConcThreads |->
                   Frame("idle", "", "", Args("", None, None, None),
                         [resource |-> "", method |-> "", fields |-> <<>>])]
    /\ wire = <<>>
    /\ drawn = 0
    /\ clock = 1
    /\ gen = Gen("idle", 0)

NextConc ==
    \/ \E t \in ConcThreads : PhoneId_standard(t) /\ frames'[t].args \in ConcArgs
    \/ \E t \in ConcThreads : Verify_sms(t) /\ frames'[t].args \in ConcArgs
    \/ \E t \in ConcThreads : GenerateAuthHeaders(t)
    \/ \E t \in ConcThreads : HttpRequest(t) /\ The(frames'[t].response) \in ConcResponses
    \/ \E t \in ConcThreads : ValidateResponse(t)
    \/ Tick
    \/ \E n \in ConcLengths : RandomWithNDigits(n)
    \/ RngChoice /\ gen'.picks[Len(gen'.picks)] \in ConcDigits
    \/ JoinPicks

SpecConc == InitConc /\ [][NextConc]_vars

(***************************************************************************)
(* Properties.                                                             *)
(***************************************************************************)
GetEndpoints == {"standard", "score", "contact", "live", "status"}
PostEndpoints == {"sms", "call"}
\* the invocations whose HTTP request has been issued
Sent == {t \in Threads : frames[t].request # None}
\* the invocations whose header generation has returned headers
Signed == {t \in Threads : frames[t].auth # None /\ The(frames[t].auth).raised = None}

\* C1: for Verify.sms and Verify.call the fields given to the POST are the
\* fields given to generate_auth_headers, and the body sent is the body whose
\* MD5 was signed and put into the Content-MD5 header.
C1_BodySentIsBodySigned ==
    \A t \in Sent :
        LET fr == frames[t]
            req == The(fr.request)
            au == The(fr.auth)
        IN fr.op \in PostEndpoints =>
             /\ req.verb = "POST"
             /\ req.data # None
             /\ req.data = au.args.fields
             /\ au.body = Some(urlencode(The(req.data)))
             /\ The(req.headers)["Content-MD5"] = ContentMD5(urlencode(The(req.data)))

C1_Witness ==
    \E t \in Sent :
        /\ frames[t].op = "sms"
        /\ frames[t].args.extra # None
        /\ frames[t].args.verify_code # None
        /\ urlencode(The(The(frames[t].request).data)) =
             "phone_number=1555&language=en&template=&verify_code=1234&ucid=OTHR&note=a+b"

\* C2: every request carries the nonce and timestamp drawn by the header
\* generation of its own invocation, no two requests on the wire carry the
\* same nonce, and an invocation starts with no headers left from an earlier
\* one.
C2_FreshNoncePerRequest ==
    /\ \A i, j \in 1..Len(wire) : i # j => wire[i].nonce # wire[j].nonce
    /\ Len(wire) <= drawn
    /\ \A t \in Threads :
         frames[t].pc = "auth" => frames[t].headers = None /\ frames[t].auth = None
    /\ \A t \in Sent :
         /\ The(The(frames[t].request).headers)["x-ts-nonce"] = The(frames[t].auth).nonce
         /\ The(The(frames[t].request).headers)["x-ts-date"] = The(frames[t].auth).timestamp
         /\ \E i \in 1..Len(wire) : wire[i].nonce = The(frames[t].auth).nonce

C2_Witness ==
    /\ Len(wire) = 3
    /\ wire[1].date = wire[2].date
    /\ \E t \in Sent : frames[t].op = "status"

\* C3: the header mapping passed to requests.get / requests.post is the
\* mapping generate_auth_headers returned, key for key.
C3_HeadersPassedUnchanged ==
    \A t \in Sent :
        /\ The(frames[t].request).headers = The(frames[t].auth).headers
        /\ The(frames[t].request).headers = frames[t].headers

C3_Witness ==
    /\ \E t \in Sent : frames[t].op = "score" /\ frames[t].pc = "done"
    /\ Len(wire) >= 2

\* C4: the outcome of an invocation whose request was answered is decided by
\* the status code alone: a Response for 200, AuthorizationError for 401,
\* TelesignError carrying the raw response for any other status, whatever
\* the body.
C4_ClassifiedByStatusAlone ==
    \A t \in Threads :
        LET fr == frames[t]
        IN fr.pc = "done" /\ fr.response # None =>
             LET code == The(fr.response).status_code
                 res == The(fr.result)
             IN /\ code = codes_ok => res.kind = "Response"
                /\ code = codes_unauthorized => res.kind = "AuthorizationError"
                /\ code \notin {codes_ok, codes_unauthorized} =>
                     res.kind = "TelesignError" /\ res.http_response = fr.response

\* C5: for a positive length n the generator returns n characters, each a
\* decimal digit; a call starts from an empty buffer and touches nothing but
\* its own locals.
C5_NDecimalDigits ==
    /\ gen.pc = "done" /\ gen.n > 0 =>
         /\ gen.raised = None
         /\ gen.code # None
         /\ Len(The(gen.code)) = gen.n
         /\ Len(gen.picks) = gen.n
         /\ \A k \in 1..Len(gen.picks) :
              gen.picks[k] \in {"0", "1", "2", "3", "4", "5", "6", "7", "8", "9"}
    /\ gen.pc = "loop" => Len(gen.picks) = gen.i /\ gen.code = None
    /\ wire = <<>> /\ drawn = 0 /\ \A t \in Threads : frames[t].pc = "idle"

C5_Witness == gen.pc = "done" /\ gen.n = 3 /\ gen.code = Some("907")

\* C6: a length <= 0 makes the generator fail with InputError instead of
\* returning a string, and no other length makes it fail.
C6_NonPositiveLengthRaises ==
    gen.pc = "done" =>
        /\ gen.n <= 0 => gen.raised = Some("InputError") /\ gen.code = None
        /\ gen.n > 0 => gen.raised = None

C9_ContentHeadersMatchSigned ==
    \A t \in Sent :
        LET fr == frames[t]
            au == The(fr.auth)
            h == The(The(fr.request).headers)
        IN /\ fr.op \in GetEndpoints =>
                /\ The(fr.request).verb = "GET"
                /\ au.args.fields = None
                /\ "Content-Type" \notin DOMAIN h
                /\ "Content-MD5" \notin DOMAIN h
                /\ au.canonical = JoinStr(<<"GET", "", "", h["x-ts-date"],
                                            "x-ts-nonce:" \o h["x-ts-nonce"], fr.resource>>, "\n")
           /\ fr.op \in PostEndpoints =>
                /\ au.args.fields = Some(fr.fields)
                /\ {"Content-Type", "Content-MD5"} \subseteq DOMAIN h
                /\ h["Content-Type"] = FormContentType
                /\ h["Content-MD5"] = ContentMD5(urlencode(fr.fields))
                /\ au.canonical = JoinStr(<<"POST", h["Content-MD5"], h["Content-Type"],
                                            h["x-ts-date"], "x-ts-nonce:" \o h["x-ts-nonce"],
                                            fr.resource>>, "\n")

C9_Witness ==
    /\ \E t \in Sent : frames[t].op = "call" /\ frames[t].args.extra # None
    /\ Len(wire) >= 2

\* C10: the customer id and secret key of each client stay the values it
\* was constructed with, and every call of generate_auth_headers is given
\* exactly those values of the client the method was called on.
C10_CredentialImmutable ==
    /\ \A c \in ClientNames :
         /\ clients[c]._customer_id = ctor[c].customer_id
         /\ clients[c]._secret_key = ctor[c].secret_key
    /\ \A t \in Threads :
         frames[t].auth # None =>
           /\ The(frames[t].auth).args.customer_id = ctor[frames[t].self].customer_id
           /\ The(frames[t].auth).args.secret_key = ctor[frames[t].self].secret_key

C10_Witness ==
    /\ ctor["phoneid"].customer_id # ctor["verify"].customer_id
    /\ ctor["phoneid"].secret_key # ctor["verify"].secret_key
    /\ Len(wire) >= 1
    /\ drawn = MaxRequests
    /\ \E t \in Threads :
         /\ frames[t].pc = "done"
         /\ frames[t].auth # None
         /\ The(frames[t].result).kind = "ConfigurationError"

\* C11: a call on a client whose secret key is not valid base64 ends in
\* ConfigurationError, which is neither AuthorizationError nor TelesignError
\* nor any other failure, and no request of that call reaches the wire.
C11_InvalidKeyIsConfigurationError ==
    \A t \in Threads :
        LET fr == frames[t]
        IN (fr.auth # None /\ ~ValidBase64(ctor[fr.self].secret_key)) =>
             /\ fr.pc = "done"
             /\ The(fr.result).kind = "ConfigurationError"
             /\ The(fr.result).kind \notin {"AuthorizationError", "TelesignError",
                                            "ValueError", "Response"}
             /\ fr.headers = None
             /\ fr.request = None
             /\ fr.response = None
             /\ \A i \in 1..Len(wire) : wire[i].nonce # The(fr.auth).nonce

C11_Witness ==
    /\ wire # <<>>
    /\ \E t \in Threads :
         /\ frames[t].op = "sms"
         /\ frames[t].auth # None
         /\ ctor["verify"].secret_key = "not base64"
         /\ The(frames[t].result).kind = "ConfigurationError"

\* the requests on the wire that carry the nonce drawn for invocation t
RequestsOf(t) == {i \in 1..Len(wire) : wire[i].nonce = The(frames[t].auth).nonce}

\* C13: an invocation assembles its fields, then obtains headers, then issues
\* one HTTP request with them, then classifies the response: no request
\* before the headers exist, never more than one request per invocation, and
\* a Response only after the classification of a received response succeeded.
C13_FixedOrderOneRequest ==
    /\ Len(wire) <= drawn
    /\ \A t \in Threads :
         LET fr == frames[t]
         IN /\ fr.pc = "auth" =>
                 fr.auth = None /\ fr.headers = None /\ fr.request = None
                   /\ fr.response = None /\ fr.result = None
            /\ fr.pc = "http" =>
                 fr.auth # None /\ fr.headers # None /\ fr.request = None
                   /\ fr.response = None /\ fr.result = None
            /\ fr.pc = "validate" =>
                 fr.headers # None /\ fr.request # None /\ fr.response # None
                   /\ fr.result = None
            /\ fr.request # None => fr.headers # None /\ Cardinality(RequestsOf(t)) = 1
            /\ (fr.auth # None /\ fr.request = None) => RequestsOf(t) = {}
            /\ (fr.result # None /\ The(fr.result).kind = "Response") =>
                 /\ fr.pc = "done"
                 /\ fr.request # None
                 /\ fr.response # None
                 /\ The(fr.response).status_code = codes_ok
                 /\ json_loads(The(fr.response).text) # None
                 /\ The(fr.result).data = json_loads(The(fr.response).text)

C13_Witness ==
    /\ Len(wire) = 2
    /\ \E t \in Threads :
         /\ frames[t].op = "call"
         /\ frames[t].pc = "done"
         /\ The(frames[t].result).kind = "TelesignError"
         /\ The(frames[t].response).status_code = 500

\* the threads that are in an endpoint method or have left one
Entered == {t \in Threads : frames[t].pc # "idle"}
\* the keys of the caller's extra mapping
ExtraKeys(a) == IF a.extra = None THEN {} ELSE DictKeys(The(a.extra))

\* C16: extra is merged last: every key of extra is a request field with
\* extra's value, every other field has the value the named parameters give
\* it, the request carries exactly these fields, and extra itself stays the
\* mapping the caller passed.
C16_ExtraMergedLast ==
    \A t \in Entered :
        LET fr == frames[t]
            named == PrepareOf(fr.op, [fr.args EXCEPT !.extra = None]).fields
        IN /\ \A k \in ExtraKeys(fr.args) :
                k \in DictKeys(fr.fields) /\ DictGet(fr.fields, k) = DictGet(The(fr.args.extra), k)
           /\ \A k \in DictKeys(named) \ ExtraKeys(fr.args) :
                k \in DictKeys(fr.fields) /\ DictGet(fr.fields, k) = DictGet(named, k)
           /\ DictKeys(fr.fields) = DictKeys(named) \cup ExtraKeys(fr.args)
           /\ Len(fr.fields) = Cardinality(DictKeys(fr.fields))
           /\ fr.args.extra \in Extras
           /\ fr.request # None =>
                IF fr.op \in PostEndpoints
                THEN The(fr.request).data = Some(fr.fields)
                ELSE The(fr.request).params = Some(fr.fields)

C16_Witness ==
    \E t \in Entered :
        /\ frames[t].op = "standard"
        /\ frames[t].args.use_case_code = Some("ATCK")
        /\ frames[t].args.extra # None
        /\ frames[t].request # None
        /\ The(frames[t].request).params = Some(<< <<"ucid", "OTHR">>, <<"note", "a b">> >>)

\* C15: in Verify.sms and Verify.call an omitted verify_code sends no
\* verify_code field and gives Response.verify_code None; a supplied one is
\* the verify_code field of the request, value for value, and is
\* Response.verify_code; the Responses of the GET endpoints have verify_code
\* None.
C15_VerifyCodePassthrough ==
    \A t \in Entered :
        LET fr == frames[t]
            code == fr.args.verify_code
            returned == fr.result # None /\ The(fr.result).kind = "Response"
        IN /\ (fr.op \in PostEndpoints /\ code = None) =>
                /\ "verify_code" \notin DictKeys(fr.fields)
                /\ returned => The(fr.result).verify_code = None
           /\ (fr.op \in PostEndpoints /\ code # None) =>
                /\ "verify_code" \in DictKeys(fr.fields)
                /\ DictGet(fr.fields, "verify_code") = The(code)
                /\ fr.request # None => The(fr.request).data = Some(fr.fields)
                /\ returned => The(fr.result).verify_code = code
           /\ (fr.op \in GetEndpoints /\ returned) => The(fr.result).verify_code = None

\* the character ch occurs in the text s
Contains(s, ch) == \E i \in 1..Len(s) : SubSeq(s, i, i) = ch

\* C14: the resource given to generate_auth_headers begins with a slash and
\* holds no query string, whatever phone_number or ref_id was passed; the GET
\* endpoints sign no fields and send their fields as query parameters only.
C14_SignedResourceIsPath ==
    \A t \in Entered :
        LET fr == frames[t]
        IN /\ fr.auth # None =>
                LET signed == The(fr.auth).args
                IN /\ SubSeq(signed.resource, 1, 1) = "/"
                   /\ ~Contains(signed.resource, "?")
                   /\ fr.op \in GetEndpoints => signed.fields = None
           /\ (fr.request # None /\ fr.op \in GetEndpoints) =>
                /\ The(fr.request).params = Some(fr.fields)
                /\ The(fr.request).data = None
                /\ The(fr.request).url = clients[fr.self]._url \o The(fr.auth).args.resource

\* the invocations of the running threads
Invocations == {t \in DOMAIN frames : frames[t].pc # "idle"}

\* C12: under any interleaving of endpoint invocations and of a code
\* generator call, every invocation's resource, method and fields are those
\* of its own arguments, its headers carry its own nonce and timestamp and
\* the credential of its own client, its request carries its own fields and
\* headers, no two invocations have the same nonce, the clients stay as
\* constructed, and the generator's code is made of its own picks.
C12_InvocationsIsolated ==
    /\ \A c \in ClientNames :
         clients[c] = ServiceBase_init("rest.telesign.com", ctor[c].customer_id,
                                       ctor[c].secret_key, TRUE, None)
    /\ \A t \in Invocations :
         LET fr == frames[t]
             own == PrepareOf(fr.op, fr.args)
         IN /\ fr.resource = own.resource /\ fr.method = own.method
            /\ fr.fields = own.fields
            /\ fr.auth # None =>
                 LET auth == The(fr.auth)
                 IN /\ auth.args.customer_id = ctor[fr.self].customer_id
                    /\ auth.args.secret_key = ctor[fr.self].secret_key
                    /\ auth.args.resource = own.resource
                    /\ auth.args.fields \in {None, Some(own.fields)}
                    /\ fr.headers # None =>
                         /\ The(fr.headers)["x-ts-nonce"] = auth.nonce
                         /\ The(fr.headers)["x-ts-date"] = auth.timestamp
                    /\ \A u \in Invocations \ {t} :
                         frames[u].auth # None => The(frames[u].auth).nonce # auth.nonce
            /\ fr.request # None =>
                 LET req == The(fr.request)
                 IN /\ req.headers = fr.headers
                    /\ req.url = clients[fr.self]._url \o own.resource
                    /\ req.proxies = clients[fr.self]._proxy
                    /\ IF fr.op \in PostEndpoints
                       THEN req.data = Some(own.fields) /\ req.params = None
                       ELSE req.params = Some(own.fields) /\ req.data = None
    /\ gen.pc = "done" => gen.code = Some(JoinStr(gen.picks, "")) /\ Len(gen.picks) = gen.n

C12_Witness ==
    /\ gen.pc = "loop" /\ gen.picks = <<"7">>
    /\ frames["t1"].op = "sms" /\ frames["t2"].op = "sms"
    /\ frames["t1"].self = frames["t2"].self
    /\ frames["t1"].fields # frames["t2"].fields
    /\ frames["t1"].request # None /\ frames["t2"].request # None
    /\ frames["t1"].pc = "validate" /\ frames["t2"].pc = "validate"

====
